---- MODULE Spec2Model ----
(***************************************************************************)
(* Model of elimage (main.py): a content-addressed image store served by   *)
(* a single-process Tornado application.                                   *)
(*                                                                         *)
(*   IndexHandler.post         upload, dedup by SHA-1, sharded layout      *)
(*   MyStaticFileHandler.get   serving with WebP -> PNG negotiation        *)
(*   convert_webp              the dwebp subprocess                        *)
(*   guess_mime_using_file     memoized type sniffing                      *)
(*                                                                         *)
(* post() is an ordinary (synchronous) handler: it runs to completion on   *)
(* the IOLoop, so it is one atomic action.  get() is a coroutine: it       *)
(* suspends at "yield convert_webp(...)", so it is split at that point and *)
(* the dwebp subprocess runs as a process of its own.                      *)
(***************************************************************************)
EXTENDS Integers, Sequences, FiniteSets, TLC

(* ------------------------------ bounds --------------------------------- *)
\* number of distinct upload bodies
NumBlobs == 3
\* a body is written (and a file read) in this many chunks
NumChunks == 2
\* longest multipart upload
MaxBatch == 3
\* upload requests in one behaviour of SpecUpload
MaxPosts == 2
\* fetch requests in one behaviour
MaxGets == 2

\* length of hashlib.sha1().hexdigest()
HashLen == 40
\* h[:2] / h[2:]
ShardLen == 2

Blobs == 1..NumBlobs
Filenames == {"a.img", "b.img"}
IPs == {"new", "known", "blocked"}

None == "None"

(* ------------------------------ hashing -------------------------------- *)
HexDigits ==
  <<"0", "1", "2", "3", "4", "5", "6", "7", "8", "9", "a", "b", "c", "d", "e", "f">>

\* m = hashlib.sha1(); m.update(body); h = m.hexdigest()
\* SHA-1 is modelled as an injective map onto 40 lowercase hex digits; blobs
\* 1 and 2 fall into the same shard directory.
Sha1 ==
  [b \in Blobs |->
     [i \in 1..HashLen |->
        IF i <= ShardLen THEN HexDigits[((((b + 1) \div 2) * 5 + i) % 16) + 1]
                         ELSE HexDigits[((b * i + b) % 16) + 1]]]
hexdigest(b) == Sha1[b]

\* d = h[:2]
ShardDir(h) == SubSeq(h, 1, ShardLen)
\* f = h[2:]
ShardFile(h) == SubSeq(h, ShardLen + 1, Len(h))

Hashes == {hexdigest(b) : b \in Blobs}
Dirs == {ShardDir(h) : h \in Hashes}

\* os.path.join(datadir, d, f) and the derived  <that> + '.png'
PathOf(h, png) == [d |-> ShardDir(h), f |-> ShardFile(h), png |-> png]
Paths == {PathOf(h, png) : h \in Hashes, png \in BOOLEAN}
PathHash(p) == p.d \o p.f

(* --------------------------- file contents ----------------------------- *)
\* What a file holds: some of the NumChunks chunks of body (fmt "orig") or of
\* the PNG rendering of body (fmt "png").  A hole reads as zero bytes.
NoFile == [body |-> 0, fmt |-> "none", chunks |-> {}]
Content == [body : Blobs, fmt : {"orig", "png"}, chunks : SUBSET (1..NumChunks)]
Complete(c) == c # NoFile /\ c.chunks = 1..NumChunks
Stored(b) == [body |-> b, fmt |-> "orig", chunks |-> 1..NumChunks]
PngOf(b) == [body |-> b, fmt |-> "png", chunks |-> 1..NumChunks]

BlobKind(b) ==
  CASE b % 4 = 1 -> "webp"
    [] b % 4 = 2 -> "oldwebp"
    [] b % 4 = 3 -> "jpeg"
    [] OTHER -> "data"

(* --------------------------- type sniffing ----------------------------- *)
\* `file -i path`: the mime column.  The magic number sits in the first chunk,
\* an empty file is inode/x-empty, a file that starts with a hole is data.
FileMime(c) ==
  IF c = NoFile THEN "cannot-open"
  ELSE IF c.chunks = {} THEN "inode/x-empty"
  ELSE IF 1 \notin c.chunks THEN "application/octet-stream"
  ELSE IF c.fmt = "png" THEN "image/png"
  ELSE CASE BlobKind(c.body) = "webp" -> "image/webp"
         [] BlobKind(c.body) = "oldwebp" -> "application/octet-stream"
         [] BlobKind(c.body) = "jpeg" -> "image/jpeg"
         [] OTHER -> "application/octet-stream"

\* `file -i path`: the text after '=' of the third column (the charset)
FileEncoding(c) ==
  IF c = NoFile \/ 1 \notin c.chunks \/ c.fmt = "png" THEN "binary"
  ELSE IF BlobKind(c.body) = "data" THEN "gzip" ELSE "binary"

\* `file path`: 'Web/P image' in desc
DescIsWebP(c) ==
  /\ c # NoFile /\ 1 \in c.chunks /\ c.fmt = "orig"
  /\ BlobKind(c.body) \in {"webp", "oldwebp"}

\* faulty variant: the encoding is passed on whatever it is
NormalizeKeepEncoding(mime, encoding, descIsWebp) ==
  IF mime = "application/octet-stream" /\ descIsWebp
    THEN [mime |-> "image/webp", encoding |-> None]
    ELSE [mime |-> mime, encoding |-> encoding]

\* lines 29-39: what guess_mime_using_file returns for the answers of file(1)
Normalize(mime, encoding, descIsWebp) ==
  IF mime = "application/octet-stream" /\ descIsWebp
    THEN [mime |-> "image/webp", encoding |-> None]
    ELSE [mime |-> mime,
          encoding |-> IF encoding # "gzip" THEN None ELSE encoding]

\* the body of guess_mime_using_file, without the memo
SniffFile(c) == Normalize(FileMime(c), FileEncoding(c), DescIsWebP(c))

NoEntry == [mime |-> "no-entry", encoding |-> None]

\* @lru_cache(): the memo after a call for path p
CachePut(cache, files, p) ==
  IF cache[p] # NoEntry THEN cache ELSE [cache EXCEPT ![p] = SniffFile(files[p])]

\* guess_mime_using_file(path): the memoized answer
guess_mime_using_file(cache, files, p) ==
  IF cache[p] # NoEntry THEN cache[p] ELSE SniffFile(files[p])

\* mimetypes.guess_extension of the standard library
StdGuessExtension(ftype) ==
  CASE ftype = "image/jpeg" -> ".jpe"
    [] ftype = "image/png" -> ".png"
    [] ftype = "image/gif" -> ".gif"
    [] OTHER -> None

guess_extension(ftype) ==
  IF ftype = "application/octet-stream" THEN ".bin"
  ELSE IF ftype = "image/webp" THEN ".webp"
  ELSE LET ext == StdGuessExtension(ftype)
       IN IF ext \in {".jpe", ".jpeg"} THEN ".jpg" ELSE ext

(* ------------------------------- state --------------------------------- *)
VARIABLES
  dirs,      \* shard directories under datadir
  files,     \* Paths -> content of the file there, or NoFile
  cache,     \* the lru_cache of guess_mime_using_file
  users,     \* model: remote_ip -> None, "ok" or "blocked"
  images,    \* model.add_image: set of <<ip, h>>
  posts,     \* number of uploads handled
  resp,      \* the last upload: its parts and its response
  returned,  \* hash -> the results (URL, FAIL) of the uploads of it, in order
  gets,      \* the fetch requests: input, position in get(), response
  procs,     \* the dwebp subprocess of each fetch request
  hreq,      \* the last request the router dispatched by path, and its answer
  sniff      \* the last answer of file(1) and what guess_mime_using_file made of it

vars == <<dirs, files, cache, users, images, posts, resp, returned, gets, procs,
          hreq, sniff>>

NoResp == [ip |-> None, parts |-> <<>>, status |-> 0, body |-> <<>>, failed |-> {},
           aborted |-> FALSE]

\* no path request yet / no call of file(1) yet
NoHreq == [b |-> 0, n |-> 0, slash |-> -1, bad |-> 0, upper |-> FALSE, ext |-> <<>>,
           path |-> <<>>, route |-> "unasked", status |-> 0, location |-> <<>>,
           target |-> "unfollowed"]
NoSniff == [mime |-> None, semis |-> 0, enc |-> None, form |-> "none", desc |-> "none",
            done |-> FALSE, result |-> [mime |-> None, encoding |-> None]]

Reqs == 1..MaxGets
NoBody == [body |-> 0, fmt |-> "nobody", chunks |-> {}]
FreeGet == [pc |-> "free", blob |-> 0, ext |-> None, accept |-> "absent",
            ua |-> "absent", method |-> "GET", vary |-> FALSE, status |-> 0,
            served |-> "none", body |-> NoBody, ctype |-> None,
            invoked |-> FALSE, after |-> {}]
NoProc == [pc |-> "none", opened |-> FALSE, written |-> 0, rc |-> 0]

Init ==
  /\ dirs = {}
  /\ files = [p \in Paths |-> NoFile]
  /\ cache = [p \in Paths |-> NoEntry]
  /\ users = [ip \in IPs |-> IF ip = "new" THEN None
                             ELSE IF ip = "known" THEN "ok" ELSE "blocked"]
  /\ images = {}
  /\ posts = 0
  /\ resp = NoResp
  /\ returned = [h \in Hashes |-> <<>>]
  /\ gets = [r \in Reqs |-> FreeGet]
  /\ procs = [r \in Reqs |-> NoProc]
  /\ hreq = NoHreq
  /\ sniff = NoSniff

(* ------------------------------ upload --------------------------------- *)
\* one file of self.request.files, in the order the handler's two loops visit
\* them
Part == [filename : Filenames, body : Blobs]
Batches == UNION {[1..n -> Part] : n \in 0..MaxBatch}

\* What the filesystem does to the calls of one loop iteration: "mkdir_fail"
\* os.mkdir raises, "open_fail" open() raises before creating the file,
\* "write_fail" the write raises after `written` chunks reached the file.
Outcomes ==
  [op : {"ok", "mkdir_fail", "open_fail"}, written : {0}]
    \cup [op : {"write_fail"}, written : 0..(NumChunks - 1)]

\* ret[key] = val on an OrderedDict kept as a sequence of <<key, val>>
DictSet(ret, key, val) ==
  IF \E j \in 1..Len(ret) : ret[j][1] = key
    THEN [j \in 1..Len(ret) |-> IF ret[j][1] = key THEN <<key, val>> ELSE ret[j]]
    ELSE Append(ret, <<key, val>>)

\* '%s/%s/%s' % (self.request.full_url().rstrip('/'), d, f) with f += ext
Url(h, ext) == [d |-> ShardDir(h), f |-> ShardFile(h), ext |-> ext]
\* the string 'FAIL' in place of a URL, and the mark of a request that died
FAIL == [d |-> <<>>, f |-> <<>>, ext |-> "FAIL"]
ABORT == [d |-> <<>>, f |-> <<>>, ext |-> "ABORT"]
IsUrl(v) == v # FAIL /\ v # ABORT

\* if not os.path.exists(p)
DirMissing(ds, d) == d \notin ds

\* faulty variant: the existence test dropped: every upload writes its file again
FileMissingAlways(fs, fpath) == TRUE

\* if not os.path.exists(fpath)
FileMissing(fs, fpath) == fs[fpath] = NoFile

\* the body of "for file in filelist" for parts[i]; st is the handler's view
\* of the world so far
PostFile(st, ip, file, i, outcome) ==
  LET h == hexdigest(file.body)
      d == ShardDir(h)
      fpath == PathOf(h, FALSE)
      st1 == [st EXCEPT !.images = @ \cup {<<ip, h>>}]
  IN IF DirMissing(st1.dirs, d) /\ outcome.op = "mkdir_fail"
       THEN [st1 EXCEPT !.aborted = TRUE,
                        !.failed = @ \cup {i},
                        !.returned[h] = Append(@, ABORT)]
     ELSE
       LET st2 == [st1 EXCEPT !.dirs = @ \cup {d}]
       IN IF FileMissing(st2.files, fpath) /\ outcome.op \in {"open_fail", "write_fail"}
            THEN [st2 EXCEPT
                    !.files[fpath] =
                       IF outcome.op = "open_fail" THEN NoFile
                       ELSE [body |-> file.body, fmt |-> "orig",
                             chunks |-> 1..outcome.written],
                    !.ret = DictSet(@, file.filename, FAIL),
                    !.status = 500,
                    !.failed = @ \cup {i},
                    !.returned[h] = Append(@, FAIL)]
          ELSE
            LET st3 == IF FileMissing(st2.files, fpath)
                         THEN [st2 EXCEPT !.files[fpath] = Stored(file.body)]
                         ELSE st2
                ftype == guess_mime_using_file(st3.cache, st3.files, fpath).mime
                ext == guess_extension(ftype)
                url == Url(h, IF ext # None THEN ext ELSE "")
            IN [st3 EXCEPT
                  !.cache = CachePut(@, st3.files, fpath),
                  !.ret = DictSet(@, file.filename, url),
                  !.returned[h] = Append(@, url)]

RECURSIVE PostLoop(_, _, _, _, _)
PostLoop(st, ip, parts, outcomes, i) ==
  IF i > Len(parts) \/ st.aborted THEN st
  ELSE PostLoop(PostFile(st, ip, parts[i], i, outcomes[i]), ip, parts, outcomes, i + 1)

\* lines 126-131: what is written to the response
PostBody(ret) ==
  IF Len(ret) > 1
    THEN [j \in 1..Len(ret) |-> [name |-> ret[j][1], val |-> ret[j][2]]]
  ELSE IF Len(ret) = 1
    THEN <<[name |-> None, val |-> ret[1][2]]>>
  ELSE <<>>

\* faulty variant: the blacklist is not consulted
IsBlockedNever(user) == FALSE

\* lines 82-86: the user is known and user['blocked'] is set
IsBlocked(user) == user = "blocked"

\* if not files
NoFiles(parts) == Len(parts) = 0

\* IndexHandler.post
Post(ip, parts, outcomes) ==
  IF IsBlocked(users[ip])
    THEN /\ resp' = [NoResp EXCEPT !.ip = ip, !.parts = parts, !.status = 403]
         /\ posts' = posts + 1
         /\ UNCHANGED <<dirs, files, cache, users, images, returned, gets, procs, hreq, sniff>>
  ELSE IF NoFiles(parts)
    THEN /\ users' = [users EXCEPT ![ip] = "ok"]
         /\ resp' = [NoResp EXCEPT !.ip = ip, !.parts = parts, !.status = 400]
         /\ posts' = posts + 1
         /\ UNCHANGED <<dirs, files, cache, images, returned, gets, procs, hreq, sniff>>
  ELSE
    LET st0 == [dirs |-> dirs, files |-> files, cache |-> cache, images |-> images,
                returned |-> returned, ret |-> <<>>, status |-> 200,
                failed |-> {}, aborted |-> FALSE]
    IN \E st \in {PostLoop(st0, ip, parts, outcomes, 1)} :
       /\ users' = [users EXCEPT ![ip] = "ok"]
       /\ dirs' = st.dirs
       /\ files' = st.files
       /\ cache' = st.cache
       /\ images' = st.images
       /\ returned' = st.returned
       /\ posts' = posts + 1
       /\ UNCHANGED <<gets, procs, hreq, sniff>>
       /\ resp' = IF st.aborted
                    THEN [NoResp EXCEPT !.ip = ip, !.parts = parts, !.status = 500,
                                        !.failed = st.failed, !.aborted = TRUE]
                    ELSE [ip |-> ip, parts |-> parts, status |-> st.status,
                          body |-> PostBody(st.ret), failed |-> st.failed,
                          aborted |-> FALSE]

\* a sequence of uploads of one file each
UploadOne ==
  /\ posts < MaxPosts
  /\ \E ip \in IPs, part \in Part, outcome \in Outcomes :
       Post(ip, <<part>>, <<outcome>>)

\* a request without file parts
UploadNone ==
  /\ posts < MaxPosts
  /\ \E ip \in IPs : Post(ip, <<>>, <<>>)

NextUpload == UploadOne \/ UploadNone

SpecUpload == Init /\ [][NextUpload]_vars

\* the first request after a start: a multipart upload of up to MaxBatch files
UploadBatch ==
  /\ posts = 0
  /\ \E ip \in IPs, parts \in Batches :
       \E outcomes \in [1..Len(parts) -> Outcomes] : Post(ip, parts, outcomes)

NextBatch == UploadBatch

SpecBatch == Init /\ [][NextBatch]_vars

(* ------------------------------- fetch --------------------------------- *)
\* Header values a client may send; the state keeps the key, the text is
\* looked up here.  "absent" is headers.get(..., '').
AcceptText ==
  [absent |-> <<>>,
   webp |-> <<"i", "m", "a", "g", "e", "/", "w", "e", "b", "p", ",", "*", "/", "*">>,
   mixed |-> <<"I", "m", "a", "g", "e", "/", "W", "e", "b", "P">>,
   png |-> <<"i", "m", "a", "g", "e", "/", "p", "n", "g">>]
UserAgentText ==
  [absent |-> <<>>,
   firefox |-> <<"G", "e", "c", "k", "o", "/", "2", "0", "1", "0", " ", "F", "i", "r", "e", "f", "o", "x">>,
   curl |-> <<"c", "u", "r", "l", "/", "8">>,
   lower |-> <<"l", "i", "k", "e", " ", "g", "e", "c", "k", "o">>]
AcceptKeys == DOMAIN AcceptText
UserAgentKeys == DOMAIN UserAgentText
\* the group (\.\w*)? of the route: None when the URL has no extension
Exts == {None, ".png", ".webp", ".PNG"}
Methods == {"GET", "HEAD"}

\* str.lower() on the letters that occur
LowerChar(c) ==
  CASE c = "I" -> "i" [] c = "W" -> "w" [] c = "P" -> "p" [] c = "G" -> "g"
    [] c = "F" -> "f" [] OTHER -> c
Lower(t) == [i \in 1..Len(t) |-> LowerChar(t[i])]
\* sub in t
Contains(t, sub) ==
  \E i \in 0..(Len(t) - Len(sub)) : SubSeq(t, i + 1, i + Len(sub)) = sub

ImageWebp == <<"i", "m", "a", "g", "e", "/", "w", "e", "b", "p">>
Gecko == <<"G", "e", "c", "k", "o">>

\* self.absolute_path.endswith('.png')
EndsWithPng(p) == p.png

\* StaticFileHandler.get_content_type over the patched mimetypes.guess_type
get_content_type(cch, fs, p) ==
  LET t == guess_mime_using_file(cch, fs, p)
  IN IF t.encoding = "gzip" THEN "application/gzip"
     ELSE IF t.encoding # None THEN "application/octet-stream"
     ELSE t.mime

\* StaticFileHandler.get(path, include_body): validate the path, set the
\* headers, send the file as it is now
ServeStatic(g, cch, fs, p, include_body) ==
  IF fs[p] = NoFile
    THEN [get |-> [g EXCEPT !.pc = "done", !.status = 404], cache |-> cch]
    ELSE [get |-> [g EXCEPT !.pc = "done", !.status = 200,
                            !.served = IF p.png THEN "png" ELSE "orig",
                            !.ctype = get_content_type(cch, fs, p),
                            !.body = IF include_body THEN fs[p] ELSE NoBody],
          cache |-> CachePut(cch, fs, p)]

\* faulty variant: the Accept header compared without .lower()
WantsWebpCaseSensitive(accept, ua, ext) ==
  /\ \/ Contains(AcceptText[accept], ImageWebp)
     \/ ~Contains(UserAgentText[ua], Gecko)
  /\ ext # ".png"

\* lines 176-178: the original WebP is acceptable to this client
WantsWebp(accept, ua, ext) ==
  /\ \/ Contains(Lower(AcceptText[accept]), ImageWebp)
     \/ ~Contains(UserAgentText[ua], Gecko)
  /\ ext # ".png"

\* faulty variant: the method test dropped
BypassAnyMethod(abs, method, content_type) ==
  EndsWithPng(abs) \/ content_type # "image/webp"

\* lines 169-170: no negotiation for this request
Bypass(abs, method, content_type) ==
  EndsWithPng(abs) \/ method # "GET" \/ content_type # "image/webp"

\* faulty variant: the cache test dropped: every PNG request converts
PngMissingAlways(fs, png_path) == TRUE

\* if not os.path.exists(png_path)
PngMissing(fs, png_path) == fs[png_path] = NoFile

\* faulty variant: wait_for_exit(raise_error=False)
ExitNeverRaises(rc) == FALSE

\* yield p.wait_for_exit(): raise_error defaults to True, a non-zero status
\* raises CalledProcessError
ExitRaises(rc) == rc # 0

\* MyStaticFileHandler.get up to its first suspension, or to its end
GetStart(r, b, ext, accept, ua, method) ==
  /\ gets[r].pc = "free"
  /\ \A q \in Reqs : q < r => gets[q].pc # "free"
  /\ LET abs == PathOf(hexdigest(b), FALSE)
         png_path == PathOf(hexdigest(b), TRUE)
         g == [FreeGet EXCEPT !.blob = b, !.ext = ext, !.accept = accept,
                              !.ua = ua, !.method = method,
                              !.after = {q \in Reqs : gets[q].pc = "done"}]
         include_body == (method = "GET")
     IN IF files[abs] = NoFile
          THEN \* validate_absolute_path raises HTTPError(404)
               /\ gets' = [gets EXCEPT ![r] = [g EXCEPT !.pc = "done", !.status = 404]]
               /\ UNCHANGED <<cache, procs, hreq, sniff>>
        ELSE
          LET content_type == get_content_type(cache, files, abs)
              cache1 == CachePut(cache, files, abs)
          IN IF Bypass(abs, method, content_type)
               THEN \E out \in {ServeStatic(g, cache1, files, abs, include_body)} :
                      /\ gets' = [gets EXCEPT ![r] = out.get]
                      /\ cache' = out.cache
                      /\ UNCHANGED procs
             ELSE IF WantsWebp(accept, ua, ext)
               THEN \E out \in {ServeStatic([g EXCEPT !.vary = TRUE], cache1, files,
                                            abs, include_body)} :
                      /\ gets' = [gets EXCEPT ![r] = out.get]
                      /\ cache' = out.cache
                      /\ UNCHANGED procs
             ELSE IF PngMissing(files, png_path)
               THEN \* yield convert_webp(self.absolute_path, png_path)
                    /\ gets' = [gets EXCEPT ![r] = [g EXCEPT !.pc = "conv", !.vary = TRUE,
                                                             !.invoked = TRUE]]
                    /\ procs' = [procs EXCEPT ![r] = [NoProc EXCEPT !.pc = "run"]]
                    /\ cache' = cache1
             ELSE \E out \in {ServeStatic([g EXCEPT !.vary = TRUE], cache1, files,
                                          png_path, include_body)} :
                    /\ gets' = [gets EXCEPT ![r] = out.get]
                    /\ cache' = out.cache
                    /\ UNCHANGED procs
  /\ UNCHANGED <<dirs, files, users, images, posts, resp, returned, hreq, sniff>>

\* faulty variant: the output of dwebp is the source path itself
PngPathOfSelf(abs) == abs

\* png_path = self.absolute_path + '.png'
PngPathOf(abs) == [abs EXCEPT !.png = TRUE]

\* dwebp webp -o png: it decodes the source, then creates (or truncates) the
\* output file
ProcOpen(r) ==
  /\ procs[r].pc = "run" /\ ~procs[r].opened
  /\ Complete(files[PathOf(hexdigest(gets[r].blob), FALSE)])
  /\ files' = [files EXCEPT ![PngPathOf(PathOf(hexdigest(gets[r].blob), FALSE))] =
                 [body |-> gets[r].blob, fmt |-> "png", chunks |-> {}]]
  /\ procs' = [procs EXCEPT ![r].opened = TRUE]
  /\ UNCHANGED <<dirs, cache, users, images, posts, resp, returned, gets, hreq, sniff>>

\* dwebp writes its next chunk at its own file offset
ProcWrite(r) ==
  /\ procs[r].pc = "run" /\ procs[r].opened /\ procs[r].written < NumChunks
  /\ files' = [files EXCEPT ![PngPathOf(PathOf(hexdigest(gets[r].blob), FALSE))].chunks =
                 @ \cup {procs[r].written + 1}]
  /\ procs' = [procs EXCEPT ![r].written = @ + 1]
  /\ UNCHANGED <<dirs, cache, users, images, posts, resp, returned, gets, hreq, sniff>>

\* dwebp exits with status 0 after the last chunk
ProcExit(r) ==
  /\ procs[r].pc = "run" /\ procs[r].opened /\ procs[r].written = NumChunks
  /\ procs' = [procs EXCEPT ![r].pc = "exited", ![r].rc = 0]
  /\ UNCHANGED <<dirs, files, cache, users, images, posts, resp, returned, gets, hreq, sniff>>

\* dwebp fails to decode, cannot write, or is killed: a non-zero status
ProcFail(r) ==
  /\ procs[r].pc = "run"
  /\ procs' = [procs EXCEPT ![r].pc = "exited", ![r].rc = 1]
  /\ UNCHANGED <<dirs, files, cache, users, images, posts, resp, returned, gets, hreq, sniff>>

\* get() after "yield convert_webp(...)": wait_for_exit() raises on a non-zero
\* status, otherwise path += '.png' and the file is served
GetResume(r) ==
  /\ gets[r].pc = "conv" /\ procs[r].pc = "exited"
  /\ IF ExitRaises(procs[r].rc)
       THEN /\ gets' = [gets EXCEPT ![r].pc = "done", ![r].status = 500]
            /\ UNCHANGED cache
       ELSE \E out \in {ServeStatic(gets[r], cache, files,
                                    PathOf(hexdigest(gets[r].blob), TRUE), TRUE)} :
              /\ gets' = [gets EXCEPT ![r] = out.get]
              /\ cache' = out.cache
  /\ UNCHANGED <<dirs, files, users, images, posts, resp, returned, procs, hreq, sniff>>

\* the data directory at a start of the server that follows earlier uploads
InitFetch ==
  /\ dirs = Dirs
  /\ files = [p \in Paths |->
                IF p.png THEN NoFile
                ELSE Stored(CHOOSE b \in Blobs : hexdigest(b) = PathHash(p))]
  /\ cache = [p \in Paths |-> NoEntry]
  /\ users = [ip \in IPs |-> IF ip = "new" THEN None
                             ELSE IF ip = "known" THEN "ok" ELSE "blocked"]
  /\ images = {}
  /\ posts = 0
  /\ resp = NoResp
  /\ returned = [h \in Hashes |-> <<>>]
  /\ gets = [r \in Reqs |-> FreeGet]
  /\ procs = [r \in Reqs |-> NoProc]
  /\ hreq = NoHreq
  /\ sniff = NoSniff

\* clients that cannot show WebP or ask for .png, and one that can
FetchClients ==
  {[accept |-> "absent", ua |-> "firefox", ext |-> None],
   [accept |-> "webp", ua |-> "firefox", ext |-> None]}

\* the objects that sniff as WebP
WebpBlobs == {b \in Blobs : BlobKind(b) \in {"webp", "oldwebp"}}

\* the objects concurrent requests compete for
FetchBlobs == {b \in Blobs : BlobKind(b) = "webp"}

Fetch ==
  \E r \in Reqs, b \in FetchBlobs, c \in FetchClients :
    GetStart(r, b, c.ext, c.accept, c.ua, "GET")

Dwebp ==
  \E r \in Reqs : ProcOpen(r) \/ ProcWrite(r) \/ ProcExit(r) \/ ProcFail(r)

Resume == \E r \in Reqs : GetResume(r)

NextFetch == Fetch \/ Dwebp \/ Resume

SpecFetch == InitFetch /\ [][NextFetch]_vars

\* One request, every combination of headers, extension and method, on a data
\* directory in which earlier runs left derived files: none, a whole one, or
\* the start of one (a dwebp that was killed).
InitNegotiate ==
  /\ dirs = Dirs
  /\ \E left \in [WebpBlobs -> {{}, {1}, 1..NumChunks}], have \in SUBSET WebpBlobs :
       files = [p \in Paths |->
                  LET b == CHOOSE x \in Blobs : hexdigest(x) = PathHash(p)
                  IN IF ~p.png THEN Stored(b)
                     ELSE IF b \in have
                       THEN [body |-> b, fmt |-> "png", chunks |-> left[b]]
                     ELSE NoFile]
  /\ cache = [p \in Paths |-> NoEntry]
  /\ users = [ip \in IPs |-> IF ip = "new" THEN None
                             ELSE IF ip = "known" THEN "ok" ELSE "blocked"]
  /\ images = {}
  /\ posts = 0
  /\ resp = NoResp
  /\ returned = [h \in Hashes |-> <<>>]
  /\ gets = [r \in Reqs |-> FreeGet]
  /\ procs = [r \in Reqs |-> NoProc]
  /\ hreq = NoHreq
  /\ sniff = NoSniff

Negotiate ==
  /\ \A q \in Reqs : gets[q].pc = "free"
  /\ \E b \in Blobs, ext \in Exts, accept \in AcceptKeys,
        ua \in UserAgentKeys, method \in Methods :
       GetStart(1, b, ext, accept, ua, method)

NextNegotiate == Negotiate \/ Dwebp \/ Resume

SpecNegotiate == InitNegotiate /\ [][NextNegotiate]_vars

(* ------------------------------ claims --------------------------------- *)
OrigPath(b) == PathOf(hexdigest(b), FALSE)
PngPath(b) == PathOf(hexdigest(b), TRUE)
UrlHash(u) == u.d \o u.f

\* C1 as stated: whenever two uploads carried the same bytes, one file exists
\* for their hash, neither upload erred and both were answered with the same
\* public path.
C1_Original ==
  \A h \in Hashes :
    Len(returned[h]) >= 2 =>
      /\ files[PathOf(h, FALSE)] # NoFile
      /\ \A i \in 1..Len(returned[h]) :
           IsUrl(returned[h][i]) /\ returned[h][i] = returned[h][1]

\* C1 (amended): once an accepted upload of some bytes has been answered with
\* a public path, every later accepted upload of the same bytes is answered
\* with that same path, without error, and the file for the hash exists.
C1_DedupIdempotent ==
  \A h \in Hashes :
    \A i \in 1..Len(returned[h]), j \in 1..Len(returned[h]) :
      (i < j /\ IsUrl(returned[h][i])) =>
        /\ returned[h][j] = returned[h][i]
        /\ UrlHash(returned[h][j]) = h
        /\ files[PathOf(h, FALSE)] # NoFile

C1_Witness ==
  \E h \in Hashes :
    /\ Len(returned[h]) >= 2
    /\ IsUrl(returned[h][1])
    /\ returned[h][2] = returned[h][1]

\* C2: every file present at <dataRoot>/<prefix>/<suffix> holds the complete
\* bytes whose hash is prefix+suffix; a failed write leaves nothing there.
C2_AtomicWrite ==
  \A b \in Blobs : files[OrigPath(b)] \in {NoFile, Stored(b)}

Accepted == resp.status \notin {0, 400, 403}

DistinctNames(parts) ==
  \A i \in 1..Len(parts), j \in 1..Len(parts) :
    parts[i].filename = parts[j].filename => i = j

\* C9: in an upload of several files (here: with different filenames) a
\* storage failure on one file marks only that file FAIL and makes the status
\* 500; every other file is stored and reported with its URL, and the request
\* is not aborted.
C9_PartialFailure ==
  (Accepted /\ Len(resp.parts) > 1 /\ resp.failed # {} /\ DistinctNames(resp.parts)) =>
    /\ ~resp.aborted
    /\ Len(resp.body) = Len(resp.parts)
    /\ resp.status = 500
    /\ \A i \in 1..Len(resp.parts) :
         i <= Len(resp.body) =>
           IF i \in resp.failed
             THEN resp.body[i].val = FAIL
             ELSE /\ IsUrl(resp.body[i].val)
                  /\ UrlHash(resp.body[i].val) = hexdigest(resp.parts[i].body)
                  /\ files[OrigPath(resp.parts[i].body)] # NoFile

\* C10: an answered upload of n > 1 files has n lines, the i-th being
\* 'filename of the i-th file: its URL or FAIL'; a bare URL line is written
\* only for a single file that succeeded.
C10_BatchFormat ==
  (Accepted /\ ~resp.aborted) =>
    /\ Len(resp.parts) > 1 =>
         /\ Len(resp.body) = Len(resp.parts)
         /\ \A i \in 1..Len(resp.parts) :
              i <= Len(resp.body) =>
                /\ resp.body[i].name = resp.parts[i].filename
                /\ \/ resp.body[i].val = FAIL
                   \/ UrlHash(resp.body[i].val) = hexdigest(resp.parts[i].body)
    /\ \A j \in 1..Len(resp.body) :
         (resp.body[j].name = None /\ IsUrl(resp.body[j].val)) =>
           (Len(resp.parts) = 1 /\ resp.failed = {})

\* the requests that have been answered
Done == {r \in Reqs : gets[r].pc = "done"}
\* the object of request r sniffs as WebP
IsWebpObject(b) == BlobKind(b) \in {"webp", "oldwebp"}

\* what the headers say, written down value by value
AcceptHasWebp == {"webp", "mixed"}
UaHasMarker == {"firefox"}
OriginalExpected(g) ==
  /\ g.accept \in AcceptHasWebp \/ g.ua \notin UaHasMarker
  /\ g.ext # ".png"
NeedsPng(g) == g.method = "GET" /\ IsWebpObject(g.blob) /\ ~OriginalExpected(g)

\* C3: no request is answered with a derived .png file that is incomplete or
\* torn, whatever conversions run at the time.
C3_NoTornPng ==
  \A r \in Done :
    (gets[r].status = 200 /\ gets[r].served = "png") =>
      gets[r].body = PngOf(gets[r].blob)

\* C4: a GET of a WebP object is answered with the original bytes exactly when
\* (Accept contains image/webp in any case, or User-Agent lacks the marker)
\* and the extension is not .png; every other request takes the PNG branch:
\* it is answered from the derived .png file, or with 5xx when its conversion
\* failed, never with the original.
C4_Negotiation ==
  \A r \in Done :
    (gets[r].method = "GET" /\ IsWebpObject(gets[r].blob)) =>
      IF OriginalExpected(gets[r])
        THEN /\ gets[r].status = 200
             /\ gets[r].served = "orig"
             /\ gets[r].body = Stored(gets[r].blob)
        ELSE \/ gets[r].status = 200 /\ gets[r].served = "png"
                /\ gets[r].body.fmt = "png" /\ gets[r].body.body = gets[r].blob
             \/ gets[r].status = 500 /\ gets[r].served = "none"
                /\ procs[r].pc = "exited" /\ procs[r].rc # 0

C4_Witness ==
  \E r \in Done :
    /\ gets[r].method = "GET" /\ IsWebpObject(gets[r].blob)
    /\ gets[r].ext = ".png" /\ gets[r].accept = "mixed" /\ gets[r].ua = "curl"
    /\ gets[r].status = 200 /\ gets[r].served = "png"
    /\ gets[r].invoked

\* C5: a request for a non-WebP object, or one that is not a GET, is answered
\* with the original file for every Accept, User-Agent and extension; no Vary
\* header is set, dwebp is not started and no .png file appears.
C5_Bypass ==
  \A r \in Reqs :
    (gets[r].pc # "free" /\ (~IsWebpObject(gets[r].blob) \/ gets[r].method # "GET")) =>
      /\ gets[r].pc = "done"
      /\ gets[r].status = 200
      /\ gets[r].served = "orig"
      /\ gets[r].body = IF gets[r].method = "GET" THEN Stored(gets[r].blob) ELSE NoBody
      /\ ~gets[r].vary
      /\ ~gets[r].invoked
      /\ procs[r] = NoProc
      /\ ~IsWebpObject(gets[r].blob) => files[PngPath(gets[r].blob)] = NoFile

C5_Witness ==
  \E r \in Done :
    /\ gets[r].method = "HEAD" /\ IsWebpObject(gets[r].blob)
    /\ gets[r].ext = ".png" /\ gets[r].ua = "firefox" /\ gets[r].accept = "absent"
    /\ files[PngPath(gets[r].blob)] = NoFile
    /\ gets[r].status = 200

\* r1 was answered before r2 arrived, both need the PNG of the same object
Follows(r1, r2) ==
  /\ r1 \in Done /\ gets[r2].pc # "free" /\ r1 \in gets[r2].after
  /\ gets[r1].blob = gets[r2].blob
  /\ NeedsPng(gets[r1]) /\ NeedsPng(gets[r2])
\* ... and r2 has been answered too
Sequential(r1, r2) == Follows(r1, r2) /\ r2 \in Done

\* no request but r1 and r2 has asked for their object
Alone(r1, r2) ==
  \A q \in Reqs \ {r1, r2} : gets[q].pc = "free" \/ gets[q].blob # gets[r1].blob

OtherConverter(r1, r2) ==
  \E q \in Reqs \ {r1, r2} : gets[q].invoked /\ gets[q].blob = gets[r1].blob

C7_FailureIs5xx ==
  \A r \in Done :
    (procs[r].pc = "exited" /\ procs[r].rc # 0) =>
      /\ gets[r].status >= 500 /\ gets[r].status <= 599
      /\ gets[r].served = "none"
      /\ gets[r].body = NoBody

C7_Witness ==
  \E r \in Done :
    /\ procs[r].pc = "exited" /\ procs[r].rc # 0
    /\ procs[r].opened
    /\ gets[r].status = 500

\* C8: after a failed conversion (and no other conversion of the object) no
\* derived .png file is present, so the next request converts again.
C8_NoLeftover ==
  \A r \in Reqs :
    ( /\ procs[r].pc = "exited" /\ procs[r].rc # 0
      /\ \A q \in Reqs \ {r} : gets[q].blob = gets[r].blob => ~gets[q].invoked ) =>
      files[PngPath(gets[r].blob)] = NoFile

\* C11: an upload from a blocked caller is answered 403, an upload without
\* file parts from any other caller is answered 400, and neither creates or
\* changes a directory or a file of the data root.
C11_RejectionNoEffect ==
  [][ posts' # posts =>
        /\ users[resp'.ip] = "blocked" =>
             resp'.status = 403 /\ dirs' = dirs /\ files' = files
        /\ (users[resp'.ip] # "blocked" /\ Len(resp'.parts) = 0) =>
             resp'.status = 400 /\ dirs' = dirs /\ files' = files ]_vars

C11_Witness ==
  /\ resp.ip = "blocked" /\ Len(resp.parts) = 1 /\ resp.status = 403
  /\ posts = 2
  /\ \E b \in Blobs : files[OrigPath(b)] = Stored(b)

\* C14: an (identity, hash) association is on record only if the file of that
\* hash has been written or was found present; none is on record for a file
\* whose write failed.
C14_AssociationAfterWrite ==
  \A ip \in IPs, h \in Hashes :
    <<ip, h>> \in images => files[PathOf(h, FALSE)] # NoFile

(* ------------------------------ the routes ------------------------------ *)
\* Request paths are sequences of characters.  The application table of
\* main() is tried in order; tornado anchors each pattern at both ends.
SuffixLen == 38
MaxDelta == 1

UpperHex == <<"A", "B", "C", "D", "E", "F">>
Digits == {"0", "1", "2", "3", "4", "5", "6", "7", "8", "9"}
LowerLetters ==
  {"a", "b", "c", "d", "e", "f", "g", "h", "i", "j", "k", "l", "m", "n", "o", "p",
   "q", "r", "s", "t", "u", "v", "w", "x", "y", "z"}
UpperLetters ==
  {"A", "B", "C", "D", "E", "F", "G", "H", "I", "J", "K", "L", "M", "N", "O", "P",
   "Q", "R", "S", "T", "U", "V", "W", "X", "Y", "Z"}

\* [a-fA-F0-9]
HexChars ==
  {"0", "1", "2", "3", "4", "5", "6", "7", "8", "9", "a", "b", "c", "d", "e", "f",
   "A", "B", "C", "D", "E", "F"}
IsHexChar(c) == c \in HexChars
\* \w
IsWordChar(c) == c \in Digits \cup LowerLetters \cup UpperLetters \cup {"_"}

AllHex(t) == \A i \in 1..Len(t) : IsHexChar(t[i])
\* (\.\w*)?
ExtMatch(t) ==
  t = <<>> \/ (t[1] = "." /\ \A i \in 2..Len(t) : IsWordChar(t[i]))

RoutePrefix == <<"/", "i">>
ScriptPath == <<"e", "l", "i", "m", "a", "g", "e">>
HasPrefix(path, pre) == Len(path) >= Len(pre) /\ SubSeq(path, 1, Len(pre)) = pre
\* the part of the path after "/i/"
Rest(path) == SubSeq(path, Len(RoutePrefix) + 2, Len(path))

\* r"/i"
IndexRoute(path) == path = RoutePrefix
\* r"/i/" + SCRIPT_PATH
ToolRoute(path) == path = RoutePrefix \o <<"/">> \o ScriptPath
\* r"/i/([a-fA-F0-9]{2}/[a-fA-F0-9]{38})(\.\w*)?"
StaticRoute(path) ==
  /\ HasPrefix(path, RoutePrefix \o <<"/">>)
  /\ \E t \in {Rest(path)} :
       /\ Len(t) >= ShardLen + 1 + SuffixLen
       /\ AllHex(SubSeq(t, 1, ShardLen))
       /\ t[ShardLen + 1] = "/"
       /\ AllHex(SubSeq(t, ShardLen + 2, ShardLen + 1 + SuffixLen))
       /\ ExtMatch(SubSeq(t, ShardLen + 2 + SuffixLen, Len(t)))
\* r"/i/([a-fA-F0-9/]+(?:\.\w*)?)"
HashRoute(path) ==
  /\ HasPrefix(path, RoutePrefix \o <<"/">>)
  /\ \E t \in {Rest(path)} :
       \E k \in 1..Len(t) :
         /\ \A i \in 1..k : IsHexChar(t[i]) \/ t[i] = "/"
         /\ ExtMatch(SubSeq(t, k + 1, Len(t)))

\* the handler the application picks for a path; "none" is tornado's 404
Dispatch(path) ==
  IF IndexRoute(path) THEN "index"
  ELSE IF ToolRoute(path) THEN "tool"
  ELSE IF StaticRoute(path) THEN "static"
  ELSE IF HashRoute(path) THEN "hash"
  ELSE "none"

\* p.find('.') + 1, 0 when there is no dot
FirstDot(p) ==
  IF \E i \in 1..Len(p) : p[i] = "."
    THEN CHOOSE i \in 1..Len(p) : p[i] = "." /\ \A j \in 1..(i - 1) : p[j] # "."
    ELSE 0

\* faulty variant: the slashes stay in the hash
KeepSlashes(h) == h

\* h.replace('/', '')
RemoveSlashes(h) == SelectSeq(h, LAMBDA c : c # "/")

\* faulty variant: only a short hash is turned away
WrongLengthShort(h) == Len(h) < HashLen

\* len(h) != 40
WrongLength(h) == Len(h) # HashLen

\* HashHandler.get(p): the status and the Location header
HashGet(p) ==
  LET dot == FirstDot(p)
      h0 == IF dot = 0 THEN p ELSE SubSeq(p, 1, dot - 1)
      ext == IF dot = 0 THEN <<>> ELSE <<".">> \o SubSeq(p, dot + 1, Len(p))
      h == RemoveSlashes(h0)
  IN IF WrongLength(h)
       THEN [status |-> 404, location |-> <<>>]
       ELSE [status |-> 301,
             location |-> <<"/">> \o SubSeq(h, 1, ShardLen) \o <<"/">>
                          \o SubSeq(h, ShardLen + 1, Len(h)) \o ext]

(* ----------------------- requests by path ------------------------------ *)
\* The paths tried: the hash of a blob cut or stretched to n characters, with
\* a non-hex character put at position bad (0: nowhere), in upper case or not,
\* a slash put after position slash (-1: nowhere), and an extension.
HashLens == {0} \cup ((HashLen - MaxDelta)..(HashLen + MaxDelta))
SlashSpots == {-1, 0, ShardLen, 5}
ExtInputs ==
  {<<>>, <<".">>, <<".", "j", "p", "g">>, <<".", "j", "-", "g">>}

UpperChar(c) ==
  IF \E i \in 1..Len(UpperHex) : HexDigits[10 + i] = c
    THEN UpperHex[CHOOSE i \in 1..Len(UpperHex) : HexDigits[10 + i] = c]
    ELSE c

InputHash(b, n, bad, upper) ==
  LET base == hexdigest(b)
  IN [i \in 1..n |->
        IF i = bad THEN "g"
        ELSE IF upper THEN UpperChar(base[((i - 1) % HashLen) + 1])
        ELSE base[((i - 1) % HashLen) + 1]]

InputPath(b, n, bad, upper, slash, ext) ==
  LET h == InputHash(b, n, bad, upper)
      s == IF slash > n THEN n ELSE slash
  IN RoutePrefix \o <<"/">> \o
     (IF s < 0 THEN h ELSE SubSeq(h, 1, s) \o <<"/">> \o SubSeq(h, s + 1, n)) \o ext

\* a GET of a path: the application picks the handler; HashHandler answers
\* at once, the static handler's answer is the matter of GetStart
Request(b, n, bad, upper, slash, ext) ==
  \E path \in {InputPath(b, n, bad, upper, slash, ext)} :
   \E route \in {Dispatch(path)} :
    \E ans \in {IF route = "hash" THEN HashGet(Rest(path))
                ELSE IF route = "none" THEN [status |-> 404, location |-> <<>>]
                ELSE [status |-> 0, location |-> <<>>]} :
     /\ hreq' = [b |-> b, n |-> n, slash |-> slash, bad |-> bad, upper |-> upper,
                 ext |-> ext, path |-> path, route |-> route,
                 status |-> ans.status, location |-> ans.location,
                 target |-> "unfollowed"]
     /\ UNCHANGED <<dirs, files, cache, users, images, posts, resp, returned, gets,
                    procs, sniff>>

\* the client follows the Location header of a permanent redirect
FollowRedirect ==
  /\ hreq.status = 301
  /\ hreq.target = "unfollowed"
  /\ hreq' = [hreq EXCEPT !.target = Dispatch(hreq.location)]
  /\ UNCHANGED <<dirs, files, cache, users, images, posts, resp, returned, gets,
                 procs, sniff>>

RequestPath ==
  /\ hreq.route = "unasked"
  /\ \E b \in Blobs, n \in HashLens, upper \in BOOLEAN, slash \in SlashSpots,
        ext \in ExtInputs :
       \E bad \in {0, 1, n} : Request(b, n, bad, upper, slash, ext)

NextRedirect == RequestPath \/ FollowRedirect

SpecRedirect == InitFetch /\ [][NextRedirect]_vars

\* C12: a path handed to the redirector whose hash part (the text before the
\* first dot, slashes removed) has 40 characters is answered with a permanent
\* redirect to "/" + its first 2 characters + "/" + the other 38 + the
\* extension; the two pieces put together are the hash again.
C12_RedirectTarget ==
  (hreq.route = "hash" /\ hreq.n = HashLen) =>
    LET h == InputHash(hreq.b, hreq.n, hreq.bad, hreq.upper)
        loc == hreq.location
    IN /\ hreq.status = 301
       /\ loc = <<"/">> \o SubSeq(h, 1, 2) \o <<"/">> \o SubSeq(h, 3, 40) \o hreq.ext
       /\ Len(SubSeq(loc, 2, 3)) = 2 /\ Len(SubSeq(loc, 5, 42)) = 38
       /\ SubSeq(loc, 2, 3) \o SubSeq(loc, 5, 42) = h

C12_Witness ==
  /\ hreq.route = "hash" /\ hreq.n = HashLen /\ hreq.status = 301
  /\ hreq.slash = 5 /\ hreq.ext = <<".", "j", "p", "g">>

\* C13: a path whose hash portion is not exactly 40 hexadecimal characters
\* (shorter, longer, or with a non-hex character) is answered 404: it is not
\* redirected and it does not reach the handler that reads the data root.
C13_HashValidation ==
  (hreq.route # "unasked" /\ (hreq.n # HashLen \/ hreq.bad # 0)) =>
    /\ hreq.status = 404
    /\ hreq.location = <<>>
    /\ hreq.route \in {"hash", "none"}

C13_Witness ==
  /\ hreq.route = "hash" /\ hreq.n = HashLen + 1 /\ hreq.bad = 0
  /\ hreq.status = 404

\* C18: when the client follows the permanent redirect issued for the flat
\* 40-character hash of a stored object, the path it asks for is one the
\* sharded serving route accepts.
C18_RedirectReaches ==
  ( /\ hreq.target # "unfollowed"
    /\ hreq.n = HashLen /\ hreq.bad = 0 /\ ~hreq.upper /\ hreq.slash = -1
    /\ files[OrigPath(hreq.b)] = Stored(hreq.b) ) =>
    hreq.target = "static"

\* C15: a file that exists under the data root is never deleted and never
\* loses or changes content in a later step; a complete file, in particular a
\* derived .png, stays exactly as it is.
C15_AppendOnly ==
  [][ \A p \in Paths :
        files[p] # NoFile =>
          /\ files'[p] # NoFile
          /\ files'[p].body = files[p].body /\ files'[p].fmt = files[p].fmt
          /\ files[p].chunks \subseteq files'[p].chunks
          /\ Complete(files[p]) => files'[p] = files[p] ]_vars

\* C17: the memoized type of every path is what sniffing the file now at that
\* path returns.
C17_MemoMatchesContent ==
  \A p \in Paths : cache[p] # NoEntry => cache[p] = SniffFile(files[p])

(* ------------------------ the answers of file(1) ------------------------ *)
\* `file -i path` prints "path: <mime>; charset=<encoding>"; result.split()
\* gives the mime column with its semicolon and the charset column.  A column
\* is modelled by its text and how it is decorated.
OracleMimes ==
  {"image/png", "image/jpeg", "image/webp", "application/octet-stream",
   "application/gzip", "text/plain", "inode/x-empty"}
OracleEncodings == {"binary", "gzip", "us-ascii", "utf-8", "compress"}
OracleSemis == {0, 1}
OracleForms == {"charset", "bare"}

\* `file path`: the description column
DescText ==
  [webp |-> <<"R", "I", "F", "F", " ", "d", "a", "t", "a", ",", " ",
              "W", "e", "b", "/", "P", " ", "i", "m", "a", "g", "e">>,
   webpvp8 |-> <<"W", "e", "b", "/", "P", " ", "i", "m", "a", "g", "e", ",", " ",
                 "V", "P", "8">>,
   lower |-> <<"w", "e", "b", "/", "p", " ", "i", "m", "a", "g", "e">>,
   data |-> <<"d", "a", "t", "a">>]
DescKeys == DOMAIN DescText
WebPImage == <<"W", "e", "b", "/", "P", " ", "i", "m", "a", "g", "e">>

MimeColumn(mime, semis) == [text |-> mime, semis |-> semis]
EncodingColumn(enc, form) == IF form = "bare" THEN <<enc>> ELSE <<"charset", enc>>

\* mime.rstrip(';')
RStripSemis(col) == col.text
\* encoding.split('=')[-1]
LastField(col) == col[Len(col)]

\* guess_mime_using_file on the columns file(1) printed
GuessFromOutput(mimeCol, encCol, desc) ==
  Normalize(RStripSemis(mimeCol), LastField(encCol), Contains(desc, WebPImage))

InitSniff ==
  /\ dirs = {}
  /\ files = [p \in Paths |-> NoFile]
  /\ cache = [p \in Paths |-> NoEntry]
  /\ users = [ip \in IPs |-> IF ip = "new" THEN None
                             ELSE IF ip = "known" THEN "ok" ELSE "blocked"]
  /\ images = {}
  /\ posts = 0
  /\ resp = NoResp
  /\ returned = [h \in Hashes |-> <<>>]
  /\ gets = [r \in Reqs |-> FreeGet]
  /\ procs = [r \in Reqs |-> NoProc]
  /\ hreq = NoHreq
  /\ \E mime \in OracleMimes, semis \in OracleSemis, enc \in OracleEncodings,
        form \in OracleForms, desc \in DescKeys :
       sniff = [NoSniff EXCEPT !.mime = mime, !.semis = semis, !.enc = enc,
                               !.form = form, !.desc = desc]

\* a first call of guess_mime_using_file for a path
SniffCall ==
  /\ ~sniff.done
  /\ sniff' = [sniff EXCEPT
                 !.done = TRUE,
                 !.result = GuessFromOutput(MimeColumn(sniff.mime, sniff.semis),
                                            EncodingColumn(sniff.enc, sniff.form),
                                            DescText[sniff.desc])]
  /\ UNCHANGED <<dirs, files, cache, users, images, posts, resp, returned, gets,
                 procs, hreq>>

NextSniff == SniffCall

SpecSniff == InitSniff /\ [][NextSniff]_vars

\* C19: for every answer of the oracle the sniff result is image/webp without
\* encoding when the mime is application/octet-stream and the description
\* carries the WebP signature; otherwise it is the oracle's mime, with the
\* encoding kept only when it is gzip.
C19_Normalization ==
  sniff.done =>
    IF sniff.mime = "application/octet-stream" /\ sniff.desc \in {"webp", "webpvp8"}
      THEN sniff.result = [mime |-> "image/webp", encoding |-> None]
      ELSE /\ sniff.result.mime = sniff.mime
           /\ sniff.result.encoding = IF sniff.enc = "gzip" THEN "gzip" ELSE None

C19_Witness ==
  /\ sniff.done
  /\ sniff.mime = "application/octet-stream" /\ sniff.desc = "lower"
  /\ sniff.enc = "binary"
  /\ sniff.result = [mime |-> "application/octet-stream", encoding |-> None]

(* ------------------- uploads, fetches and redirects --------------------- *)
\* the extensions guess_extension makes, as they stand in a URL
ExtText ==
  [none |-> <<>>,
   webp |-> <<".", "w", "e", "b", "p">>,
   bin |-> <<".", "b", "i", "n">>,
   jpg |-> <<".", "j", "p", "g">>,
   png |-> <<".", "p", "n", "g">>,
   gif |-> <<".", "g", "i", "f">>]
ExtKey(ext) ==
  CASE ext = ".webp" -> "webp" [] ext = ".bin" -> "bin" [] ext = ".jpg" -> "jpg"
    [] ext = ".png" -> "png" [] ext = ".gif" -> "gif" [] OTHER -> "none"
\* the second group of the serving route as get() receives it
ExtOfGroup(t) ==
  IF t = <<>> THEN None
  ELSE CASE t = ExtText.webp -> ".webp" [] t = ExtText.bin -> ".bin"
         [] t = ExtText.jpg -> ".jpg" [] t = ExtText.png -> ".png"
         [] t = ExtText.gif -> ".gif" [] OTHER -> ".other"

\* the path of the URL an upload answered with: full_url() of the POST is
\* <host>/i, then '/' d '/' f with the extension already appended to f
PublicPath(u) == RoutePrefix \o <<"/">> \o u.d \o <<"/">> \o u.f \o ExtText[ExtKey(u.ext)]

\* the groups of the serving route for a path it matches
StaticHash(path) ==
  SubSeq(Rest(path), 1, ShardLen) \o SubSeq(Rest(path), ShardLen + 2, ShardLen + 1 + SuffixLen)
StaticExt(path) == SubSeq(Rest(path), ShardLen + 2 + SuffixLen, Len(Rest(path)))

\* an upload of one file by a caller on record
StoreUpload ==
  /\ posts < MaxPosts
  /\ \E b \in Blobs, outcome \in Outcomes :
       Post("known", <<[filename |-> "a.img", body |-> b]>>, <<outcome>>)

\* the one GET of a run: of the URL the last upload answered with
FetchPublic ==
  \E r \in Reqs, j \in 1..Len(resp.body), c \in FetchClients, b \in Blobs :
    /\ \A q \in Reqs : gets[q].pc = "free"
    /\ IsUrl(resp.body[j].val)
    /\ \E path \in {PublicPath(resp.body[j].val)} :
         /\ Dispatch(path) = "static"
         /\ hexdigest(b) = StaticHash(path)
         /\ GetStart(r, b, ExtOfGroup(StaticExt(path)), c.accept, c.ua, "GET")

\* a GET of the flat hash of the bytes last uploaded
RedirectFlat ==
  /\ hreq.route = "unasked"
  /\ \E j \in 1..Len(resp.parts) :
       Request(resp.parts[j].body, HashLen, 0, FALSE, -1, <<>>)

NextStore == StoreUpload \/ FetchPublic \/ Dwebp \/ Resume \/ RedirectFlat \/ FollowRedirect

SpecStore == Init /\ [][NextStore]_vars

\* C16: an upload step creates or changes only shard directories and original
\* files of the bodies it carried, never a derived .png; every other step
\* (fetch, conversion, redirect) leaves the directories alone and changes no
\* file except the derived .png of the object a request in flight is fetching.
C16_WriteOwnership ==
  [][ /\ posts' # posts =>
           /\ \A p \in Paths :
                files'[p] # files[p] =>
                  /\ ~p.png
                  /\ \E i \in 1..Len(resp'.parts) :
                       PathHash(p) = hexdigest(resp'.parts[i].body)
           /\ dirs \subseteq dirs'
           /\ \A d \in dirs' \ dirs :
                \E i \in 1..Len(resp'.parts) :
                  d = SubSeq(hexdigest(resp'.parts[i].body), 1, 2)
      /\ posts' = posts =>
           /\ dirs' = dirs
           /\ \A p \in Paths :
                files'[p] # files[p] =>
                  /\ p.png
                  /\ \E r \in Reqs :
                       gets[r].pc = "conv" /\ PathHash(p) = hexdigest(gets[r].blob) ]_vars

C16_Witness ==
  /\ posts = 2
  /\ hreq.status = 301
  /\ \E r \in Reqs :
       /\ gets[r].pc = "done" /\ gets[r].invoked
       /\ files[PngPath(gets[r].blob)] = PngOf(gets[r].blob)
       /\ files[OrigPath(gets[r].blob)] = Stored(gets[r].blob)

\* C20: the path of the URL a successful upload of some bytes answered with
\* is one the sharded serving route accepts, and a GET of it by a client that
\* takes WebP, or of an object that is not WebP, is answered 200 with exactly
\* those bytes.
C20_RoundTrip ==
  /\ \A j \in 1..Len(resp.body) :
       IsUrl(resp.body[j].val) => Dispatch(PublicPath(resp.body[j].val)) = "static"
  /\ \A r \in Done :
       (OriginalExpected(gets[r]) \/ BlobKind(gets[r].blob) \notin {"webp", "oldwebp"}) =>
         /\ gets[r].status = 200
         /\ gets[r].body = Stored(gets[r].blob)

====
